---- MODULE Spec2Model ----
(***************************************************************************)
(* Blackjack round engine of src/blackjack.py: the hand valuer, the deck   *)
(* with automatic reshuffle, the round state machine of Game.play_round,   *)
(* the three settlement paths and the best-effort persistence of rounds.   *)
(***************************************************************************)
EXTENDS Integers, Sequences, FiniteSets, TLC

VARIABLES deck, num_decks, drawn, player, dealer, bet, round_no, history,
          db, rows, log_calls, screen, msg, pc

vars == <<deck, num_decks, drawn, player, dealer, bet, round_no, history,
          db, rows, log_calls, screen, msg, pc>>

(***************************************************************************)
(* Bounds of the model.                                                    *)
(***************************************************************************)
\* longest hand built in the hand-valuer specification
MaxHandLen == 4
\* largest num_decks a Deck is built with in the deck specification
MaxDecks == 2
\* number of outcomes of random.shuffle that are told apart
NumShuffles == 4
\* number of rounds of one session that are followed
MaxRounds == 3
\* largest bet the naturals rule is entered with on its own
MaxBet == 12

(***************************************************************************)
(* Cards.                                                                  *)
(***************************************************************************)
SUITS == <<"S", "H", "D", "C">>

RANKS == <<"A", "2", "3", "4", "5", "6", "7", "8", "9", "10", "J", "Q", "K">>

\* int(r) on the numeric ranks
RankInt(r) ==
  CASE r = "2" -> 2 [] r = "3" -> 3 [] r = "4" -> 4 [] r = "5" -> 5
    [] r = "6" -> 6 [] r = "7" -> 7 [] r = "8" -> 8 [] r = "9" -> 9
    [] r = "10" -> 10

NoCard == <<"-", "-">>

IndexError == <<"IndexError", "IndexError">>

(***************************************************************************)
(* hand_value: every Ace as 11, then one Ace at a time down to 1 while the *)
(* total is above 21.                                                      *)
(***************************************************************************)
RECURSIVE SumHand(_, _, _)
SumHand(hand, total, aces) ==
  IF hand = <<>> THEN [total |-> total, aces |-> aces]
  ELSE LET r == Head(hand)[1]
       IN  IF r \in {"J", "Q", "K"} THEN SumHand(Tail(hand), total + 10, aces)
           ELSE IF r = "A" THEN SumHand(Tail(hand), total + 11, aces + 1)
           ELSE SumHand(Tail(hand), total + RankInt(r), aces)

RECURSIVE ReduceAces(_, _)
ReduceAces(total, aces) ==
  IF total > 21 /\ aces # 0 THEN ReduceAces(total - 10, aces - 1) ELSE total

\* a hand valuer that lowers at most one Ace
hand_value_one_ace(hand) ==
  LET s == SumHand(hand, 0, 0)
  IN  IF s.total > 21 /\ s.aces # 0 THEN s.total - 10 ELSE s.total

hand_value(hand) ==
  LET s == SumHand(hand, 0, 0) IN ReduceAces(s.total, s.aces)

has_blackjack(hand) == Len(hand) = 2 /\ hand_value(hand) = 21

(***************************************************************************)
(* render_hand: the text of each card, the first one masked on request.    *)
(* The text of a card, rank followed by suit, is kept as the pair.         *)
(***************************************************************************)
Mask == <<"#", "#">>

\* a rendering that never masks
render_hand_unmasked(hand, hide_first) == hand

render_hand(hand, hide_first) ==
  IF hide_first /\ hand # <<>> THEN <<Mask>> \o Tail(hand) ELSE hand

(***************************************************************************)
(* Deck.                                                                   *)
(***************************************************************************)
\* Deck._create: num_decks times, suit by suit, rank by rank
Create(n) ==
  [i \in 1..(52 * n) |->
     <<RANKS[((i - 1) % 13) + 1], SUITS[(((i - 1) \div 13) % 4) + 1]>>]

\* The outcomes of random.shuffle that are told apart. Outcome k brings the
\* cards of ShuffleTop[k] to the top of the deck (the end of the list), the
\* first of them to be drawn first, and leaves the others in created order.
\* A card is named by its place in the created list: 13 * suit + rank.
At(rank, suit) == 13 * (suit - 1) + rank

ShuffleTop ==
  << \* AS 9D KH 7C | 5S 6D 7H KD 10S 2C
     << At(1, 1), At(9, 3), At(13, 2), At(7, 4),
        At(5, 1), At(6, 3), At(7, 2), At(13, 3), At(10, 1), At(2, 4) >>,
     \* 10H 6C 8D KS AD 5C | 9S AH 9C 6D 3H 10D
     << At(10, 2), At(6, 4), At(8, 3), At(13, 1), At(1, 3), At(5, 4),
        At(9, 1), At(1, 2), At(9, 4), At(6, 3), At(3, 2), At(10, 3) >>,
     \* AC AH KC QD | 5D KH 5H AS 9C
     << At(1, 4), At(1, 2), At(13, 4), At(12, 3),
        At(5, 3), At(13, 2), At(5, 2), At(1, 1), At(9, 4) >>,
     \* the created order
     << >>,
     \* 7S 10C 9H 8S
     << At(7, 1), At(10, 4), At(9, 2), At(8, 1) >>,
     \* 2S 3S
     << At(2, 1), At(3, 1) >> >>

Seeds == 1..NumShuffles

RECURSIVE Reverse(_)
Reverse(s) == IF s = <<>> THEN <<>> ELSE Append(Reverse(Tail(s)), Head(s))

Range(s) == {s[i] : i \in 1..Len(s)}

Shuffle(cards, seed) ==
  LET top  == ShuffleTop[seed]
      rest == SelectSeq([i \in 1..Len(cards) |-> i], LAMBDA i : i \notin Range(top))
  IN  [i \in 1..Len(rest) |-> cards[rest[i]]]
        \o [i \in 1..Len(top) |-> cards[Reverse(top)[i]]]

\* a draw that does not rebuild an empty deck
DrawNoRebuild(cards, n, seed) ==
  IF cards = <<>> THEN [card |-> IndexError, cards |-> cards]
  ELSE [card |-> cards[Len(cards)], cards |-> SubSeq(cards, 1, Len(cards) - 1)]

\* Deck.draw: rebuild and reshuffle when empty, then pop the last card
Draw(cards, n, seed) ==
  LET c == IF cards = <<>> THEN Shuffle(Create(n), seed) ELSE cards
  IN  IF c = <<>> THEN [card |-> IndexError, cards |-> c]
      ELSE [card |-> c[Len(c)], cards |-> SubSeq(c, 1, Len(c) - 1)]

(***************************************************************************)
(* Console input.  A line of input is a sequence of characters.            *)
(***************************************************************************)
Digits == {"0", "1", "2", "3", "4", "5", "6", "7", "8", "9"}

DigitVal(c) ==
  CASE c = "0" -> 0 [] c = "1" -> 1 [] c = "2" -> 2 [] c = "3" -> 3
    [] c = "4" -> 4 [] c = "5" -> 5 [] c = "6" -> 6 [] c = "7" -> 7
    [] c = "8" -> 8 [] c = "9" -> 9

RECURSIVE DigitsVal(_, _)
DigitsVal(s, acc) ==
  IF s = <<>> THEN acc ELSE DigitsVal(Tail(s), 10 * acc + DigitVal(Head(s)))

\* int(raw): an optional sign and at least one digit, ValueError otherwise
ParseInt(raw) ==
  LET signed == raw # <<>> /\ Head(raw) \in {"-", "+"}
      body   == IF signed THEN Tail(raw) ELSE raw
  IN  IF body = <<>> \/ \E i \in 1..Len(body) : body[i] \notin Digits
      THEN [ok |-> FALSE, val |-> 0]
      ELSE [ok |-> TRUE,
            val |-> IF signed /\ Head(raw) = "-" THEN 0 - DigitsVal(body, 0)
                    ELSE DigitsVal(body, 0)]

\* the lines typed at the bet prompt
BetInputs ==
  { <<>>, <<"x">>, <<"0">>, <<"-", "3">>, <<"7">>, <<"1", "0">>,
    <<"1", "0", "0">> }

\* the lines typed at the Hit/Stand prompt, stripped and upper-cased
ChoiceInputs == {"H", "S", "X"}

\* the lines typed at the "another round" prompt, stripped and upper-cased
AgainInputs == {"", "Y", "N"}

(***************************************************************************)
(* Game._show_table: what one rendering of the table puts on the screen.   *)
(***************************************************************************)
reshuffle_threshold == 15

\* the dealer's value while the hole card is masked
Hidden == 0 - 1

RECURSIVE MaxChipsAfter(_)
MaxChipsAfter(rs) ==
  IF rs = <<>> THEN 0
  ELSE LET m == MaxChipsAfter(Tail(rs))
       IN  IF Head(rs).chips_after > m THEN Head(rs).chips_after ELSE m

\* DB.get_stats: the number of rounds logged and the highest chips_after
get_stats(rs) == <<Len(rs), MaxChipsAfter(rs)>>

LastFive(h) == IF Len(h) <= 5 THEN h ELSE SubSeq(h, Len(h) - 4, Len(h))

Table(reveal_dealer, header, dk, pl, dl, b, rn, hist, stats) ==
  [header       |-> header,
   round_no     |-> rn,
   remaining    |-> Len(dk),
   low          |-> Len(dk) < reshuffle_threshold,
   dealer       |-> render_hand(dl.hand, ~reveal_dealer),
   dealer_value |-> IF reveal_dealer THEN hand_value(dl.hand) ELSE Hidden,
   player       |-> render_hand(pl.hand, FALSE),
   player_value |-> hand_value(pl.hand),
   chips        |-> pl.chips,
   bet          |-> b,
   stats        |-> stats,
   recent       |-> LastFive(hist)]

NoScreen == [header |-> "welcome"]

\* _show_table on the state this step leaves: the table is printed, then
\* get_stats is called when a store is attached; its exception is not
\* caught in _show_table and ends the process.
ShowTable(reveal_dealer, header, statsOk, next) ==
  LET crash == db' # "none" /\ ~statsOk
  IN  /\ screen' = Table(reveal_dealer, header, deck', player', dealer', bet',
                         round_no', history',
                         IF db' = "none" \/ crash THEN <<>> ELSE get_stats(rows'))
      /\ pc' = IF crash THEN "crashed" ELSE next

(***************************************************************************)
(* Settlement: the result and the chips each path leaves.                  *)
(***************************************************************************)
\* int(x / 2): the fraction is cut off towards zero
IntHalf(x) == IF x >= 0 THEN x \div 2 ELSE 0 - ((0 - x) \div 2)

\* a naturals rule that pays the player's Blackjack 1:1
NaturalsOutcomeEvenMoney(p_bj, d_bj, chips, b) ==
  IF p_bj /\ d_bj THEN [result |-> "PUSH", chips |-> chips]
  ELSE IF p_bj THEN [result |-> "PLAYER_BJ", chips |-> chips + b]
  ELSE [result |-> "DEALER_BJ", chips |-> chips - b]

\* Game._resolve_naturals, up to the call of _persist; int(bet * 1.5)
NaturalsOutcome(p_bj, d_bj, chips, b) ==
  IF p_bj /\ d_bj THEN [result |-> "PUSH", chips |-> chips]
  ELSE IF p_bj THEN [result |-> "PLAYER_BJ", chips |-> chips + IntHalf(b * 3)]
  ELSE [result |-> "DEALER_BJ", chips |-> chips - b]

\* a bust that costs the bet twice
BustOutcomeTwice(chips, b) == [result |-> "PLAYER_BUST", chips |-> chips - 2 * b]

\* Game._player_busts, up to the call of _persist
BustOutcome(chips, b) == [result |-> "PLAYER_BUST", chips |-> chips - b]

\* a settlement in which the player wins ties
SettleOutcomeTiesWin(p, d, chips, b) ==
  IF d > 21 THEN [result |-> "DEALER_BUST", chips |-> chips + b]
  ELSE IF p >= d THEN [result |-> "WIN", chips |-> chips + b]
  ELSE [result |-> "LOSE", chips |-> chips - b]

\* a settlement that takes any 21 of the player for a Blackjack
SettleOutcomeBlackjackOn21(p, d, chips, b) ==
  IF d > 21 THEN [result |-> "DEALER_BUST", chips |-> chips + b]
  ELSE IF p = 21 /\ p > d THEN [result |-> "PLAYER_BJ", chips |-> chips + IntHalf(b * 3)]
  ELSE IF p > d THEN [result |-> "WIN", chips |-> chips + b]
  ELSE IF p < d THEN [result |-> "LOSE", chips |-> chips - b]
  ELSE [result |-> "PUSH", chips |-> chips]

\* Game._settle, up to the call of _persist
SettleOutcome(p, d, chips, b) ==
  IF d > 21 THEN [result |-> "DEALER_BUST", chips |-> chips + b]
  ELSE IF p > d THEN [result |-> "WIN", chips |-> chips + b]
  ELSE IF p < d THEN [result |-> "LOSE", chips |-> chips - b]
  ELSE [result |-> "PUSH", chips |-> chips]

\* the record appended to Game.history
HistoryRec(result, chips) ==
  [round_no |-> round_no, result |-> result, chips |-> chips]

\* the row DB.log_round inserts
RoundRow(result, chips) ==
  [round_no       |-> round_no,
   bet            |-> bet,
   player_hand    |-> render_hand(player.hand, FALSE),
   dealer_hand    |-> render_hand(dealer.hand, FALSE),
   player_value   |-> hand_value(player.hand),
   dealer_value   |-> hand_value(dealer.hand),
   result         |-> result,
   chips_after    |-> chips,
   deck_remaining |-> Len(deck)]

\* a _persist that takes the round back when the write fails
persist_rollback(result, chips, logOk) ==
  IF db = "none" \/ logOk
  THEN [history   |-> Append(history, HistoryRec(result, chips)),
        rows      |-> IF db = "none" THEN rows ELSE Append(rows, RoundRow(result, chips)),
        log_calls |-> IF db = "none" THEN log_calls ELSE log_calls + 1,
        msg       |-> result,
        chips     |-> chips]
  ELSE [history   |-> history,
        rows      |-> rows,
        log_calls |-> log_calls + 1,
        msg       |-> "db_write_failed",
        chips     |-> player.chips]

\* a _persist that writes the chips held before the settlement
persist_stale_chips(result, chips, logOk) ==
  [history   |-> Append(history, HistoryRec(result, chips)),
   rows      |-> IF db # "none" /\ logOk
                 THEN Append(rows, RoundRow(result, player.chips)) ELSE rows,
   log_calls |-> IF db = "none" THEN log_calls ELSE log_calls + 1,
   msg       |-> IF db # "none" /\ ~logOk THEN "db_write_failed" ELSE result,
   chips     |-> chips]

\* Game._persist: the record goes to the history; with a store attached,
\* log_round is called once and its failure is reported and dropped.
\* The chips are the ones settlement left.
persist(result, chips, logOk) ==
  [history   |-> Append(history, HistoryRec(result, chips)),
   rows      |-> IF db # "none" /\ logOk
                 THEN Append(rows, RoundRow(result, chips)) ELSE rows,
   log_calls |-> IF db = "none" THEN log_calls ELSE log_calls + 1,
   msg       |-> IF db # "none" /\ ~logOk THEN "db_write_failed" ELSE result,
   chips     |-> chips]

\* a settlement path from its chip update to its wait for Enter
Finish(o, logOk) ==
  LET q == persist(o.result, o.chips, logOk)
  IN  /\ player' = [player EXCEPT !.chips = q.chips]
      /\ history' = q.history
      /\ rows' = q.rows
      /\ log_calls' = q.log_calls
      /\ msg' = q.msg
      /\ pc' = "pause"
      /\ UNCHANGED <<deck, num_decks, drawn, dealer, bet, round_no, db, screen>>

ResolveNaturals ==
  /\ pc = "naturals"
  /\ \E logOk \in BOOLEAN :
       Finish(NaturalsOutcome(has_blackjack(player.hand),
                              has_blackjack(dealer.hand), player.chips, bet),
              logOk)

PlayerBusts ==
  /\ pc = "bust"
  /\ \E logOk \in BOOLEAN : Finish(BustOutcome(player.chips, bet), logOk)

Settle ==
  /\ pc = "settle"
  /\ \E logOk \in BOOLEAN :
       Finish(SettleOutcome(hand_value(player.hand), hand_value(dealer.hand),
                            player.chips, bet),
              logOk)

(***************************************************************************)
(* The session loop of main and the round of Game.play_round.              *)
(***************************************************************************)
StartChips == 100

\* main, top of the loop: out of chips, the session ends
GameOver ==
  /\ pc = "main"
  /\ player.chips <= 0
  /\ pc' = "exit"
  /\ msg' = "out_of_chips"
  /\ UNCHANGED <<deck, num_decks, drawn, player, dealer, bet, round_no,
                 history, db, rows, log_calls, screen>>

\* a play_round that leaves the hands of the last round on the table
StartRoundKeepsHands ==
  /\ pc = "main"
  /\ player.chips > 0
  /\ round_no < MaxRounds
  /\ round_no' = round_no + 1
  /\ pc' = "ask_bet"
  /\ msg' = "ask_bet"
  /\ UNCHANGED <<deck, num_decks, drawn, player, dealer, bet, history, db,
                 rows, log_calls, screen>>

\* main calls play_round: the round is counted and both hands are cleared
StartRound ==
  /\ pc = "main"
  /\ player.chips > 0
  /\ round_no < MaxRounds
  /\ round_no' = round_no + 1
  /\ player' = [player EXCEPT !.hand = <<>>]
  /\ dealer' = [dealer EXCEPT !.hand = <<>>]
  /\ pc' = "ask_bet"
  /\ msg' = "ask_bet"
  /\ UNCHANGED <<deck, num_decks, drawn, bet, history, db, rows, log_calls,
                 screen>>

\* an _ask_bet without the chips limit
BetAnswerNoLimit(raw, chips) ==
  LET n == ParseInt(raw)
  IN  IF ~n.ok THEN [ok |-> FALSE, bet |-> 0, msg |-> "bet_not_integer"]
      ELSE IF n.val < 1 THEN [ok |-> FALSE, bet |-> 0, msg |-> "bet_below_one"]
      ELSE [ok |-> TRUE, bet |-> n.val, msg |-> "bet_accepted"]

\* what _ask_bet makes of one line: the bet, or the reason to ask again
BetAnswer(raw, chips) ==
  LET n == ParseInt(raw)
  IN  IF ~n.ok THEN [ok |-> FALSE, bet |-> 0, msg |-> "bet_not_integer"]
      ELSE IF n.val < 1 THEN [ok |-> FALSE, bet |-> 0, msg |-> "bet_below_one"]
      ELSE IF n.val > chips THEN [ok |-> FALSE, bet |-> 0, msg |-> "bet_above_chips"]
      ELSE [ok |-> TRUE, bet |-> n.val, msg |-> "bet_accepted"]

\* an _ask_bet that takes the stake out of the chips
AskBetStaked ==
  /\ pc = "ask_bet"
  /\ \E raw \in BetInputs :
       LET a == BetAnswer(raw, player.chips)
       IN  /\ msg' = a.msg
           /\ bet' = IF a.ok THEN a.bet ELSE bet
           /\ player' = IF a.ok THEN [player EXCEPT !.chips = @ - a.bet]
                        ELSE player
           /\ pc' = IF a.ok THEN "deal" ELSE "ask_bet"
  /\ UNCHANGED <<deck, num_decks, drawn, dealer, round_no, history,
                 db, rows, log_calls, screen>>

\* Game._ask_bet: one line of input
AskBet ==
  /\ pc = "ask_bet"
  /\ \E raw \in BetInputs :
       LET a == BetAnswer(raw, player.chips)
       IN  /\ msg' = a.msg
           /\ bet' = IF a.ok THEN a.bet ELSE bet
           /\ pc' = IF a.ok THEN "deal" ELSE "ask_bet"
  /\ UNCHANGED <<deck, num_decks, drawn, player, dealer, round_no, history,
                 db, rows, log_calls, screen>>

\* a check that looks at the player's hand only
BlackjackCheckPlayerOnly(ph, dh) == has_blackjack(ph)

\* a check that looks at the dealer's hand only
BlackjackCheckDealerOnly(ph, dh) == has_blackjack(dh)

\* line 208: the round goes to the naturals rule
BlackjackCheck(ph, dh) == has_blackjack(ph) \/ has_blackjack(dh)

\* the initial deal, player, dealer, player, dealer, and the Blackjack check
Deal ==
  /\ pc = "deal"
  /\ \E seed \in Seeds, statsOk \in BOOLEAN :
       LET d1 == Draw(deck, num_decks, seed)
           d2 == Draw(d1.cards, num_decks, seed)
           d3 == Draw(d2.cards, num_decks, seed)
           d4 == Draw(d3.cards, num_decks, seed)
       IN  /\ deck' = d4.cards
           /\ drawn' = d4.card
           /\ player' = [player EXCEPT !.hand = Append(Append(@, d1.card), d3.card)]
           /\ dealer' = [dealer EXCEPT !.hand = Append(Append(@, d2.card), d4.card)]
           /\ UNCHANGED <<num_decks, bet, round_no, history, db, rows, log_calls>>
           /\ IF BlackjackCheck(player'.hand, dealer'.hand)
              THEN ShowTable(TRUE, "check_blackjack", statsOk, "naturals")
              ELSE /\ pc' = "player_turn"
                   /\ screen' = screen
           /\ msg' = IF pc' = "crashed" THEN "traceback" ELSE "dealt"

\* top of the player's loop: the table with the hole card masked
PlayerPrompt ==
  /\ pc = "player_turn"
  /\ UNCHANGED <<deck, num_decks, drawn, player, dealer, bet, round_no,
                 history, db, rows, log_calls>>
  /\ \E statsOk \in BOOLEAN : ShowTable(FALSE, "your_turn", statsOk, "ask_choice")
  /\ msg' = IF pc' = "crashed" THEN "traceback" ELSE "ask_choice"

\* a bust check that is off by one
PlayerBustedOver22(ph) == hand_value(ph) > 22

\* line 219: the hit has bust the player
PlayerBusted(ph) == hand_value(ph) > 21

\* _ask_choice turns the line down
InvalidChoice ==
  /\ pc = "ask_choice"
  /\ \E ans \in ChoiceInputs : ans \notin {"H", "S"}
  /\ msg' = "invalid_choice"
  /\ UNCHANGED <<deck, num_decks, drawn, player, dealer, bet, round_no,
                 history, db, rows, log_calls, screen, pc>>

\* the player hits: one card, and the bust check
Hit ==
  /\ pc = "ask_choice"
  /\ "H" \in ChoiceInputs
  /\ \E seed \in Seeds, statsOk \in BOOLEAN :
       LET d == Draw(deck, num_decks, seed)
       IN  /\ deck' = d.cards
           /\ drawn' = d.card
           /\ player' = [player EXCEPT !.hand = Append(@, d.card)]
           /\ UNCHANGED <<num_decks, dealer, bet, round_no, history, db, rows,
                          log_calls>>
           /\ IF PlayerBusted(player'.hand)
              THEN ShowTable(TRUE, "you_bust", statsOk, "bust")
              ELSE /\ pc' = "player_turn"
                   /\ screen' = screen
           /\ msg' = IF pc' = "crashed" THEN "traceback" ELSE "hit"

\* the player stands: the dealer's turn opens with the hole card masked
Stand ==
  /\ pc = "ask_choice"
  /\ "S" \in ChoiceInputs
  /\ UNCHANGED <<deck, num_decks, drawn, player, dealer, bet, round_no,
                 history, db, rows, log_calls>>
  /\ \E statsOk \in BOOLEAN : ShowTable(FALSE, "dealer_turn", statsOk, "dealer_turn")
  /\ msg' = IF pc' = "crashed" THEN "traceback" ELSE "stand"

\* a dealer who also hits a soft 17
DealerDrawsH17(dh) ==
  \/ hand_value(dh) < 17
  \/ hand_value(dh) = 17 /\ SumHand(dh, 0, 0).total - 17 < 10 * SumHand(dh, 0, 0).aces

\* a dealer who stands on 16
DealerDrawsBelow16(dh) == hand_value(dh) < 16

\* line 228: the dealer draws below 17
DealerDraws(dh) == hand_value(dh) < 17

DealerDraw ==
  /\ pc = "dealer_turn"
  /\ DealerDraws(dealer.hand)
  /\ \E seed \in Seeds, statsOk \in BOOLEAN :
       LET d == Draw(deck, num_decks, seed)
       IN  /\ deck' = d.cards
           /\ drawn' = d.card
           /\ dealer' = [dealer EXCEPT !.hand = Append(@, d.card)]
           /\ UNCHANGED <<num_decks, player, bet, round_no, history, db, rows,
                          log_calls>>
           /\ ShowTable(FALSE, "dealer_hits", statsOk, "dealer_turn")
           /\ msg' = IF pc' = "crashed" THEN "traceback" ELSE "dealer_hits"

\* the dealer's loop is over: the table is shown revealed before _settle
DealerStands ==
  /\ pc = "dealer_turn"
  /\ ~DealerDraws(dealer.hand)
  /\ UNCHANGED <<deck, num_decks, drawn, player, dealer, bet, round_no,
                 history, db, rows, log_calls>>
  /\ \E statsOk \in BOOLEAN : ShowTable(TRUE, "settlement", statsOk, "settle")
  /\ msg' = IF pc' = "crashed" THEN "traceback" ELSE "settlement"

\* Enter after the result: play_round returns and main shows the chips
PressEnter ==
  /\ pc = "pause"
  /\ pc' = "again"
  /\ screen' = [header |-> "chips", chips |-> player.chips]
  /\ msg' = "ask_again"
  /\ UNCHANGED <<deck, num_decks, drawn, player, dealer, bet, round_no,
                 history, db, rows, log_calls>>

\* a prompt at which the empty line does not count as Y
ContinuesOnY(again_raw) == again_raw = "Y"

\* lines 386-387: an empty line counts as Y, and Y plays another round
Continues(again_raw) ==
  LET again == IF again_raw = "" THEN "Y" ELSE again_raw
  IN  ~(again # "Y")

\* main: the answer to "another round"; anything but Y ends the session
Again ==
  /\ pc = "again"
  /\ \E raw \in AgainInputs :
       /\ pc' = IF Continues(raw) THEN "main" ELSE "exit"
       /\ msg' = IF Continues(raw) THEN "next_round" ELSE "goodbye"
  /\ UNCHANGED <<deck, num_decks, drawn, player, dealer, bet, round_no,
                 history, db, rows, log_calls, screen>>

\* main up to the loop: the store is connected or the session is offline,
\* and Game.__init__ builds the deck, the player and the dealer.  With a
\* store, Game.__init__ calls ensure_player outside any try.
Init ==
  /\ num_decks = 1
  /\ \E seed \in Seeds : deck = Shuffle(Create(num_decks), seed)
  /\ drawn = NoCard
  /\ player = [hand |-> <<>>, chips |-> StartChips]
  /\ dealer = [hand |-> <<>>, chips |-> 0]
  /\ bet = 0
  /\ round_no = 0
  /\ history = <<>>
  /\ rows = <<>>
  /\ log_calls = 0
  /\ screen = NoScreen
  /\ \E connected \in BOOLEAN, ensured \in BOOLEAN :
       /\ db = IF connected THEN "mysql" ELSE "none"
       /\ pc = IF connected /\ ~ensured THEN "crashed" ELSE "main"
       /\ msg = IF connected /\ ~ensured THEN "traceback"
                ELSE IF connected THEN "connected" ELSE "offline"

Next ==
  \/ GameOver
  \/ StartRound
  \/ AskBet
  \/ Deal
  \/ PlayerPrompt
  \/ InvalidChoice
  \/ Hit
  \/ Stand
  \/ DealerDraw
  \/ DealerStands
  \/ ResolveNaturals
  \/ PlayerBusts
  \/ Settle
  \/ PressEnter
  \/ Again

Spec == Init /\ [][Next]_vars

(***************************************************************************)
(* The session under Ctrl-C: the guard at the foot of the file turns a     *)
(* KeyboardInterrupt, raised wherever main happens to be, into a notice    *)
(* and sys.exit(0).                                                        *)
(***************************************************************************)
\* the outcome the settling step at hand computes
RoundOutcome ==
  IF pc = "naturals"
  THEN NaturalsOutcome(has_blackjack(player.hand), has_blackjack(dealer.hand),
                       player.chips, bet)
  ELSE IF pc = "bust" THEN BustOutcome(player.chips, bet)
  ELSE SettleOutcome(hand_value(player.hand), hand_value(dealer.hand),
                     player.chips, bet)

\* Ctrl-C between two steps of the session
Interrupt ==
  /\ pc \notin {"exit", "crashed", "interrupted"}
  /\ pc' = "interrupted"
  /\ msg' = "left_game"
  /\ UNCHANGED <<deck, num_decks, drawn, player, dealer, bet, round_no,
                 history, db, rows, log_calls, screen>>

\* Ctrl-C inside a settling step: after the chip update, or inside _persist
\* once the history is appended, with the INSERT done or not
InterruptSettlement ==
  /\ pc \in {"naturals", "bust", "settle"}
  /\ \E stage \in {"update", "persist"}, logOk \in BOOLEAN :
       LET o == RoundOutcome
           q == persist(o.result, o.chips, logOk)
       IN  /\ player' = [player EXCEPT !.chips = o.chips]
           /\ history' = IF stage = "persist" THEN q.history ELSE history
           /\ rows' = IF stage = "persist" THEN q.rows ELSE rows
           /\ log_calls' = IF stage = "persist" THEN q.log_calls ELSE log_calls
  /\ pc' = "interrupted"
  /\ msg' = "left_game"
  /\ UNCHANGED <<deck, num_decks, drawn, dealer, bet, round_no, db, screen>>

NextInterrupt ==
  \/ Next
  \/ Interrupt
  \/ InterruptSettlement

SpecInterrupt == Init /\ [][NextInterrupt]_vars

(***************************************************************************)
(* The session with a player who gives a valid bet and valid choices: no   *)
(* step of play_round after the bet waits for anything but the player's H  *)
(* or S, so each of them is taken once it can be.                          *)
(***************************************************************************)
FairSpec ==
  /\ Spec
  /\ WF_vars(Deal)
  /\ WF_vars(PlayerPrompt)
  /\ WF_vars(Hit \/ Stand)
  /\ WF_vars(DealerDraw)
  /\ WF_vars(DealerStands)
  /\ WF_vars(ResolveNaturals)
  /\ WF_vars(PlayerBusts)
  /\ WF_vars(Settle)

(***************************************************************************)
(* The hand valuer on its own: Player.add_card and Player.reset_hand on a  *)
(* hand of any cards.                                                      *)
(***************************************************************************)
\* the cards a hand is built from: every rank, in the first suit
HandCards == {<<RANKS[i], SUITS[1]>> : i \in 1..Len(RANKS)}

Idle(at) ==
  /\ drawn = NoCard
  /\ dealer = [hand |-> <<>>, chips |-> 0]
  /\ bet = 0
  /\ round_no = 0
  /\ history = <<>>
  /\ db = "none"
  /\ rows = <<>>
  /\ log_calls = 0
  /\ screen = NoScreen
  /\ msg = ""
  /\ pc = at

InitHand ==
  /\ num_decks = 1
  /\ deck = Create(num_decks)
  /\ player = [hand |-> <<>>, chips |-> StartChips]
  /\ Idle("hand")

\* Player.add_card
AddCard ==
  /\ pc = "hand"
  /\ Len(player.hand) < MaxHandLen
  /\ \E c \in HandCards : player' = [player EXCEPT !.hand = Append(@, c)]
  /\ UNCHANGED <<deck, num_decks, drawn, dealer, bet, round_no, history, db,
                 rows, log_calls, screen, msg, pc>>

\* Player.reset_hand
ResetHand ==
  /\ pc = "hand"
  /\ player' = [player EXCEPT !.hand = <<>>]
  /\ UNCHANGED <<deck, num_decks, drawn, dealer, bet, round_no, history, db,
                 rows, log_calls, screen, msg, pc>>

NextHand == AddCard \/ ResetHand

SpecHand == InitHand /\ [][NextHand]_vars

(***************************************************************************)
(* The deck on its own: Deck(num_decks) and any number of draws.           *)
(***************************************************************************)
InitDeck ==
  /\ num_decks \in 1..MaxDecks
  /\ \E seed \in Seeds : deck = Shuffle(Create(num_decks), seed)
  /\ player = [hand |-> <<>>, chips |-> StartChips]
  /\ Idle("deck")

\* Deck.draw
DeckDraw ==
  /\ pc = "deck"
  /\ \E seed \in Seeds :
       LET d == Draw(deck, num_decks, seed)
       IN  /\ deck' = d.cards
           /\ drawn' = d.card
  /\ UNCHANGED <<num_decks, player, dealer, bet, round_no, history, db, rows,
                 log_calls, screen, msg, pc>>

NextDeck == DeckDraw

SpecDeck == InitDeck /\ [][NextDeck]_vars

(***************************************************************************)
(* The settlement paths on their own: _resolve_naturals, _player_busts and *)
(* _settle entered with any two hands and any bet.                         *)
(***************************************************************************)
\* the ranks the hands at settlement are made of
SettleRanks == {"A", "6", "9", "10", "K"}

SettleCards == {<<r, SUITS[1]>> : r \in SettleRanks}

\* the hands of two and of three cards
SettleHands == [1..2 -> SettleCards] \cup [1..3 -> SettleCards]

\* the bets at settlement
SettleBets == {1, 7, 10}

\* the bets at the naturals rule
NaturalsBets == 1..MaxBet

InitSettle ==
  /\ num_decks = 1
  /\ deck = Create(num_decks)
  /\ drawn = NoCard
  /\ \E ph \in SettleHands, dh \in SettleHands :
       /\ player = [hand |-> ph, chips |-> StartChips]
       /\ dealer = [hand |-> dh, chips |-> 0]
       /\ pc \in (IF Len(ph) = 2 /\ Len(dh) = 2 THEN {"naturals"} ELSE {})
                   \cup (IF Len(ph) = 3 /\ Len(dh) = 2 THEN {"bust"} ELSE {})
                   \cup {"settle"}
  /\ bet \in IF pc = "naturals" THEN NaturalsBets ELSE SettleBets
  /\ round_no = 1
  /\ history = <<>>
  /\ db \in {"none", "mysql"}
  /\ rows = <<>>
  /\ log_calls = 0
  /\ screen = NoScreen
  /\ msg = ""

NextSettle == ResolveNaturals \/ PlayerBusts \/ Settle

SpecSettle == InitSettle /\ [][NextSettle]_vars

(***************************************************************************)
(* Properties.                                                             *)
(***************************************************************************)
Ranks(hand) == [i \in 1..Len(hand) |-> hand[i][1]]

\* the value of a card with an Ace counted as 1
LowValue(c) ==
  IF c[1] = "A" THEN 1
  ELSE IF c[1] \in {"10", "J", "Q", "K"} THEN 10
  ELSE RankInt(c[1])

AcePlaces(hand) == {i \in 1..Len(hand) : hand[i][1] = "A"}

RECURSIVE TotalWith(_, _, _)
\* the total of the hand with the Aces at the places in elevens counted as 11
TotalWith(hand, elevens, i) ==
  IF i > Len(hand) THEN 0
  ELSE (IF i \in elevens THEN 11 ELSE LowValue(hand[i]))
         + TotalWith(hand, elevens, i + 1)

Totals(hand) == {TotalWith(hand, e, 1) : e \in SUBSET AcePlaces(hand)}

BestTotal(hand) ==
  LET fit == {t \in Totals(hand) : t <= 21}
  IN  IF fit # {} THEN CHOOSE t \in fit : \A u \in fit : u <= t
      ELSE CHOOSE t \in Totals(hand) : \A u \in Totals(hand) : t <= u

\* an Ace and a ten-valued card
NaturalPair(hand) ==
  /\ Len(hand) = 2
  /\ \E i \in 1..2 : hand[i][1] = "A" /\ hand[3 - i][1] \in {"10", "J", "Q", "K"}

LastResult == IF history = <<>> THEN "none" ELSE history[Len(history)].result

\* the round in progress has been settled
RoundSettled ==
  /\ pc \in {"pause", "again", "main", "exit"}
  /\ history # <<>>
  /\ history[Len(history)].round_no = round_no

\* C1: hand_value of any hand is the largest total of at most 21 that some
\* choice of 1 or 11 for each Ace gives, and the smallest total of all when
\* no choice stays within 21.
C1_HandValueIsBest == hand_value(player.hand) = BestTotal(player.hand)

\* two Aces and a nine: one Ace counts 11, the other 1
C1_Witness ==
  /\ pc = "hand"
  /\ Ranks(player.hand) = <<"A", "A", "9">>
  /\ hand_value(player.hand) = 21

\* C2: _settle on a player value p <= 21 and a dealer value d appends one
\* result: d > 21 DEALER_BUST and chips + bet, else p > d WIN and chips +
\* bet, p < d LOSE and chips - bet, p = d PUSH and chips unchanged.
C2_SettleTable ==
  [][(pc = "settle" /\ hand_value(player.hand) <= 21) =>
       LET p == hand_value(player.hand)
           d == hand_value(dealer.hand)
           r == history'[Len(history')].result
           gain == player'.chips - player.chips
       IN  /\ Len(history') = Len(history) + 1
           /\ r \in {"DEALER_BUST", "WIN", "LOSE", "PUSH"}
           /\ d > 21 => r = "DEALER_BUST" /\ gain = bet
           /\ d <= 21 /\ p > d => r = "WIN" /\ gain = bet
           /\ d <= 21 /\ p < d => r = "LOSE" /\ gain = 0 - bet
           /\ d <= 21 /\ p = d => r = "PUSH" /\ gain = 0]_vars

\* 19 against 20 has lost the bet
C2_Witness ==
  /\ pc = "pause"
  /\ Ranks(player.hand) = <<"9", "10">>
  /\ Ranks(dealer.hand) = <<"A", "9">>
  /\ LastResult = "LOSE"
  /\ player.chips = StartChips - bet

\* C3: _resolve_naturals: two naturals PUSH and chips unchanged; the
\* player's alone PLAYER_BJ and chips + floor(1.5 * bet), 15 for a bet of
\* 10 and 10 for a bet of 7; the dealer's alone DEALER_BJ and chips - bet.
C3_Naturals ==
  [][(pc = "naturals" /\ (NaturalPair(player.hand) \/ NaturalPair(dealer.hand))) =>
       LET r == history'[Len(history')].result
           gain == player'.chips - player.chips
       IN  /\ Len(history') = Len(history) + 1
           /\ NaturalPair(player.hand) /\ NaturalPair(dealer.hand) =>
                r = "PUSH" /\ gain = 0
           /\ NaturalPair(player.hand) /\ ~NaturalPair(dealer.hand) =>
                /\ r = "PLAYER_BJ"
                /\ 2 * gain <= 3 * bet
                /\ 3 * bet < 2 * gain + 2
                /\ bet = 10 => gain = 15
                /\ bet = 7 => gain = 10
           /\ ~NaturalPair(player.hand) /\ NaturalPair(dealer.hand) =>
                r = "DEALER_BJ" /\ gain = 0 - bet]_vars

\* a Blackjack on a bet of 7 has paid 10
C3_Witness ==
  /\ pc = "pause"
  /\ NaturalPair(player.hand)
  /\ ~NaturalPair(dealer.hand)
  /\ LastResult = "PLAYER_BJ"
  /\ bet = 7
  /\ player.chips = StartChips + 10

\* the round in progress was dealt a natural Blackjack
DealtNatural ==
  /\ Len(player.hand) >= 2
  /\ Len(dealer.hand) >= 2
  /\ \/ NaturalPair(SubSeq(player.hand, 1, 2))
     \/ NaturalPair(SubSeq(dealer.hand, 1, 2))

\* C4: a round dealt a natural Blackjack goes straight to the naturals
\* rule: the player is not asked Hit or Stand, the dealer's turn is not
\* entered, both hands stay at two cards, no card leaves the deck after the
\* deal, and the result is the one of the naturals rule.
C4_NaturalsSkipTurns ==
  /\ [](DealtNatural =>
          /\ pc \in {"naturals", "pause", "again", "main", "exit", "crashed"}
          /\ Len(player.hand) = 2
          /\ Len(dealer.hand) = 2
          /\ screen.header \notin {"your_turn", "dealer_turn", "dealer_hits"}
          /\ RoundSettled =>
               LastResult = IF ~NaturalPair(dealer.hand) THEN "PLAYER_BJ"
                            ELSE IF ~NaturalPair(player.hand) THEN "DEALER_BJ"
                            ELSE "PUSH")
  /\ [][DealtNatural => deck' = deck /\ drawn' = drawn]_vars

\* A,K against 9,7: PLAYER_BJ on the four cards of the deal
C4_Witness ==
  /\ pc = "pause"
  /\ player.hand = <<<<"A", "S">>, <<"K", "H">>>>
  /\ dealer.hand = <<<<"9", "D">>, <<"7", "C">>>>
  /\ LastResult = "PLAYER_BJ"
  /\ player.chips = StartChips + IntHalf(3 * bet)
  /\ Len(deck) = 48

\* C5: once a hit has taken the player above 21 the player is not asked
\* again and the dealer's turn is not entered; the dealer keeps two cards,
\* and the round is settled as PLAYER_BUST for exactly the bet.
C5_BustEndsRound ==
  /\ [](hand_value(player.hand) > 21 =>
          /\ pc \in {"bust", "pause", "again", "main", "exit", "crashed"}
          /\ Len(dealer.hand) = 2
          /\ screen.header \notin {"dealer_turn", "dealer_hits", "settlement"}
          /\ RoundSettled => LastResult = "PLAYER_BUST")
  /\ [][(pc = "ask_choice" /\ hand_value(player'.hand) > 21) =>
          pc' \in {"bust", "crashed"} /\ player'.chips = player.chips]_vars
  /\ [][pc = "bust" =>
          /\ pc' = "pause"
          /\ history' = Append(history, [round_no |-> round_no,
                                         result |-> "PLAYER_BUST",
                                         chips |-> player.chips - bet])
          /\ player'.chips = player.chips - bet
          /\ player'.hand = player.hand
          /\ dealer' = dealer
          /\ deck' = deck]_vars

\* 5,7 and a 10: 22, PLAYER_BUST, the dealer still on 6,K
C5_Witness ==
  /\ pc = "pause"
  /\ Ranks(player.hand) = <<"5", "7", "10">>
  /\ Ranks(dealer.hand) = <<"6", "K">>
  /\ LastResult = "PLAYER_BUST"
  /\ history[Len(history)].chips = player.chips

\* C6: in the dealer's turn the dealer draws exactly when the hand is below
\* 17, a soft 17 included in the hands that stand; the turn ends on 17 or
\* more, and no step of it waits for the player.
C6_DealerStandsOn17 ==
  /\ [][pc = "dealer_turn" =>
          /\ pc' \in {"dealer_turn", "settle", "crashed"}
          /\ player' = player
          /\ IF BestTotal(dealer.hand) < 17
             THEN /\ Len(dealer.hand') = Len(dealer.hand) + 1
                  /\ Len(deck') = Len(deck) - 1 \/ deck = <<>>
                  /\ pc' # "settle"
             ELSE /\ dealer' = dealer
                  /\ deck' = deck
                  /\ pc' # "dealer_turn"]_vars
  /\ [][Len(dealer.hand') > Len(dealer.hand) => pc \in {"deal", "dealer_turn"}]_vars
  /\ [](pc = "settle" => BestTotal(dealer.hand) >= 17)

\* the dealer has stood on A,6
C6_Witness ==
  /\ pc = "settle"
  /\ Ranks(dealer.hand) = <<"A", "6">>
  /\ hand_value(dealer.hand) = 17

\* C7 as stated: with the player standing on 18, a dealer who holds A+6
\* draws a third card before the round is settled.
C7_DealerDrawsOnAceSix ==
  (/\ pc = "settle"
   /\ hand_value(player.hand) = 18
   /\ Len(dealer.hand) >= 2
   /\ Ranks(SubSeq(dealer.hand, 1, 2)) = <<"A", "6">>)
    => Len(dealer.hand) >= 3

\* C7, amended: with the player standing on 18, a dealer on exactly 17,
\* whether by an Ace drawn last and counted as 1 (6,K then A) or by the soft
\* 17 of A+6 on two cards, draws no card, and the round is settled as WIN
\* for exactly the bet; a dealer dealt A+6 never holds a third card.
C7_SeventeenStandsPlayerWins ==
  /\ [][(/\ pc = "dealer_turn"
         /\ BestTotal(player.hand) = 18
         /\ BestTotal(dealer.hand) = 17) =>
          dealer' = dealer /\ deck' = deck /\ pc' \in {"settle", "crashed"}]_vars
  /\ [][(/\ pc = "settle"
         /\ BestTotal(player.hand) = 18
         /\ BestTotal(dealer.hand) = 17) =>
          /\ pc' = "pause"
          /\ history'[Len(history')].result = "WIN"
          /\ player'.chips = player.chips + bet]_vars
  /\ []((Len(dealer.hand) >= 2 /\ Ranks(SubSeq(dealer.hand, 1, 2)) = <<"A", "6">>)
          => Len(dealer.hand) = 2)

\* 10,8 stands; the dealer's 6,K draws an Ace, stands on 17 and loses
C7_Witness ==
  /\ pc = "pause"
  /\ Ranks(player.hand) = <<"10", "8">>
  /\ Ranks(dealer.hand) = <<"6", "K", "A">>
  /\ hand_value(dealer.hand) = 17
  /\ LastResult = "WIN"
  /\ round_no = 1
  /\ player.chips = StartChips + bet

\* C8: has_blackjack holds of the two-card hands worth 21 and of no other;
\* the naturals rule is entered on two-card hands only, a round in which
\* the player holds three or more cards never results in PLAYER_BJ, and no
\* step raises such a player's chips by more than the bet.
C8_NoBlackjackAfterHit ==
  /\ [](/\ has_blackjack(player.hand) <=>
             (Len(player.hand) = 2 /\ BestTotal(player.hand) = 21)
        /\ has_blackjack(dealer.hand) <=>
             (Len(dealer.hand) = 2 /\ BestTotal(dealer.hand) = 21)
        /\ pc = "naturals" => Len(player.hand) = 2 /\ Len(dealer.hand) = 2
        /\ (Len(player.hand) >= 3 /\ RoundSettled) => LastResult # "PLAYER_BJ")
  /\ [][Len(player.hand) >= 3 =>
          /\ player'.chips - player.chips <= bet
          /\ Len(history') > Len(history) =>
               history'[Len(history')].result # "PLAYER_BJ"]_vars

\* 9,9 and a 3: a 21 of three cards has won the bet, no more
C8_Witness ==
  /\ pc = "pause"
  /\ Ranks(player.hand) = <<"9", "9", "3">>
  /\ hand_value(player.hand) = 21
  /\ LastResult = "WIN"
  /\ history[Len(history)].chips = history[Len(history) - 1].chips + bet

\* the cards of num_decks full sets, each as often as it occurs
Count(s, c) == Cardinality({i \in 1..Len(s) : s[i] = c})

FullCards == {<<RANKS[i], SUITS[j]>> : i \in 1..Len(RANKS), j \in 1..Len(SUITS)}

\* C9: draw never fails and returns a card; a draw from the empty deck
\* leaves 52 * num_decks - 1 cards which, with the card drawn, are num_decks
\* full sets; any other draw leaves one card less.
C9_DrawNeverFails ==
  /\ [](drawn # IndexError)
  /\ [][/\ drawn' \in FullCards
        /\ IF deck = <<>>
           THEN /\ Len(deck') = 52 * num_decks - 1
                /\ \A c \in FullCards : Count(Append(deck', drawn'), c) = num_decks
           ELSE /\ Len(deck') = Len(deck) - 1
                /\ deck = Append(deck', drawn')]_vars

\* a shoe of two decks has been drawn down to its last card and beyond
C9_Witness ==
  /\ pc = "deck"
  /\ num_decks = 2
  /\ deck = <<>>
  /\ drawn \in FullCards

\* C10 as stated: every completed round has one outcome and one attempt to
\* persist it.
C10_OneAttemptEveryRound ==
  pc \in {"pause", "again", "main", "exit"} =>
    Len(history) = round_no /\ log_calls = round_no

\* C10, amended: every completed round has one outcome; with a store
\* attached it has one call of log_round, and none in offline mode; a
\* failed call leaves no row, and the chips and the result are the ones the
\* settlement path decided, as after a call that succeeds.
C10_OneOutcomePerRound ==
  /\ [](pc \in {"pause", "again", "main", "exit"} =>
          /\ Len(history) = round_no
          /\ \A i \in 1..Len(history) : history[i].round_no = i
          /\ log_calls = IF db = "none" THEN 0 ELSE round_no
          /\ Len(rows) <= log_calls)
  /\ [][(pc \in {"naturals", "bust", "settle"}) =>
          LET o == IF pc = "naturals"
                   THEN NaturalsOutcome(has_blackjack(player.hand),
                                        has_blackjack(dealer.hand),
                                        player.chips, bet)
                   ELSE IF pc = "bust" THEN BustOutcome(player.chips, bet)
                   ELSE SettleOutcome(hand_value(player.hand),
                                      hand_value(dealer.hand), player.chips, bet)
          IN  /\ pc' = "pause"
              /\ player'.chips = o.chips
              /\ history' = Append(history, [round_no |-> round_no,
                                             result |-> o.result,
                                             chips |-> o.chips])
              /\ log_calls' = log_calls + (IF db = "none" THEN 0 ELSE 1)
              /\ \/ rows' = rows
                 \/ /\ Len(rows') = Len(rows) + 1
                    /\ rows'[Len(rows')].chips_after = o.chips
                    /\ rows'[Len(rows')].result = o.result]_vars

\* the write of a lost round has failed: the chips are down by the bet
C10_Witness ==
  /\ pc = "pause"
  /\ db = "mysql"
  /\ msg = "db_write_failed"
  /\ log_calls = 1
  /\ rows = <<>>
  /\ LastResult = "LOSE"
  /\ player.chips = StartChips - bet

\* C11: no failure of the store, in ensure_player at construction, in
\* get_stats while the table is rendered or in log_round at settlement,
\* ends the process.
C11_StoreFailureNotFatal == pc # "crashed"

(***************************************************************************)
(* C12: the bet.                                                           *)
(***************************************************************************)
DigitChars == <<"0", "1", "2", "3", "4", "5", "6", "7", "8", "9">>

\* the decimal numeral of a natural number
RECURSIVE Decimal(_)
Decimal(n) ==
  IF n < 10 THEN <<DigitChars[n + 1]>>
  ELSE Append(Decimal(n \div 10), DigitChars[(n % 10) + 1])

RECURSIVE DropZeros(_)
DropZeros(s) ==
  IF Len(s) > 1 /\ Head(s) = "0" THEN DropZeros(Tail(s)) ELSE s

\* a line without its plus sign and its leading zeros
Canonical(raw) ==
  DropZeros(IF Len(raw) > 1 /\ Head(raw) = "+" THEN Tail(raw) ELSE raw)

\* the line is the numeral of an integer from 1 to chips
DenotesBet(raw, chips) == \E n \in 1..chips : Canonical(raw) = Decimal(n)

\* the pcs of a round between the accepted bet and its settlement
BetStanding ==
  {"deal", "naturals", "player_turn", "ask_choice", "bust", "dealer_turn",
   "settle"}

\* C12: a line is accepted exactly when it is the numeral of an integer from
\* 1 to the chips held when it is asked; the accepted bet is that integer; a
\* line that is turned down leaves the prompt open and changes nothing but the
\* notice; and the bet keeps its value from its acceptance to the settlement.
C12_BetWithinChips ==
  /\ [](pc = "ask_bet" =>
          \A raw \in BetInputs :
            BetAnswer(raw, player.chips).ok <=> DenotesBet(raw, player.chips))
  /\ [][(pc = "ask_bet") =>
          IF msg' = "bet_accepted"
          THEN /\ pc' = "deal"
               /\ bet' >= 1 /\ bet' <= player.chips
               /\ \E raw \in BetInputs : Canonical(raw) = Decimal(bet')
               /\ UNCHANGED <<deck, num_decks, drawn, player, dealer, round_no,
                              history, db, rows, log_calls, screen>>
          ELSE /\ msg' \in {"bet_not_integer", "bet_below_one", "bet_above_chips"}
               /\ UNCHANGED <<deck, num_decks, drawn, player, dealer, bet,
                              round_no, history, db, rows, log_calls, screen,
                              pc>>]_vars
  /\ [][(pc # "ask_bet") => bet' = bet]_vars
  /\ [](pc \in BetStanding => bet >= 1 /\ bet <= player.chips)

\* the player, down to 90 chips after a lost round, has typed 100 and is
\* asked again
C12_Witness ==
  /\ pc = "ask_bet"
  /\ msg = "bet_above_chips"
  /\ round_no = 2
  /\ player.chips = 90

(***************************************************************************)
(* C13: the session loop.                                                  *)
(***************************************************************************)
\* C13: a round is started only from the top of the loop and only with chips
\* above 0; with no chips the loop ends without a round; after a round the
\* empty line and Y go back to the top of the loop and every other line ends
\* the session; the session, once ended, takes no further step.
C13_SessionLoop ==
  /\ [](\A raw \in AgainInputs : Continues(raw) <=> raw \in {"", "Y"})
  /\ [][round_no' # round_no =>
          /\ pc = "main" /\ player.chips > 0
          /\ round_no' = round_no + 1 /\ pc' = "ask_bet"]_vars
  /\ [][(pc = "main") =>
          IF player.chips <= 0
          THEN pc' = "exit" /\ round_no' = round_no /\ msg' = "out_of_chips"
          ELSE pc' = "ask_bet" /\ round_no' = round_no + 1]_vars
  /\ [][(pc = "again") =>
          /\ \/ pc' = "main" /\ msg' = "next_round"
             \/ pc' = "exit" /\ msg' = "goodbye"
          /\ UNCHANGED <<deck, num_decks, drawn, player, dealer, bet, round_no,
                         history, db, rows, log_calls, screen>>]_vars
  /\ [][pc # "exit"]_vars

\* the player lost all 100 chips, asked for another round, and the loop
\* ended without one
C13_Witness ==
  /\ pc = "exit"
  /\ msg = "out_of_chips"
  /\ player.chips = 0
  /\ round_no = Len(history)

(***************************************************************************)
(* C14: the chips.                                                         *)
(***************************************************************************)
\* the steps that settle a round
Settling == {"naturals", "bust", "settle"}

\* g is floor(1.5 * b)
IsThreeHalves(g, b) == 2 * g <= 3 * b /\ 3 * b < 2 * g + 2

\* C14: the chips are not touched by the bet, the deal, a hit or a dealer
\* draw; they change only in the settling step of a round, which is taken at
\* most once per round, and then by +bet, -bet, 0 or +floor(1.5 * bet); the
\* dealer's chips are 0 throughout.
C14_BetNeverStaked ==
  /\ [][(pc \notin Settling) => player'.chips = player.chips]_vars
  /\ [][(pc \in Settling) =>
          LET g == player'.chips - player.chips
          IN  /\ g \in {bet, 0 - bet, 0} \/ IsThreeHalves(g, bet)
              /\ Len(history') = Len(history) + 1
              /\ Len(history') = round_no
              /\ pc' = "pause"]_vars
  /\ [](player.chips = IF history = <<>> THEN StartChips
                       ELSE history[Len(history)].chips)
  /\ [](pc \in BetStanding => Len(history) = round_no - 1)
  /\ [](dealer.chips = 0)

\* round 1 with a bet of 10: the player has hit, the dealer has drawn, and
\* the chips are still the 100 of the start
C14_Witness ==
  /\ round_no = 1
  /\ pc = "dealer_turn"
  /\ bet = 10
  /\ Len(player.hand) >= 3
  /\ Len(dealer.hand) >= 3
  /\ player.chips = StartChips

(***************************************************************************)
(* C15: the start of a round.                                              *)
(***************************************************************************)
NoHands == player.hand = <<>> /\ dealer.hand = <<>>

\* C15: the step that counts a new round leaves both hands empty and goes to
\* the bet; the hands stay empty while the bet is asked; the deal takes the
\* four top cards of the deck, the first and third to the player, the second
\* and fourth to the dealer, so that the Blackjack check sees two cards each;
\* the rounds alternate with their settlements, whatever the last result was.
C15_RoundStartsClean ==
  /\ [][round_no' # round_no =>
          /\ player'.hand = <<>> /\ dealer'.hand = <<>>
          /\ pc' = "ask_bet"
          /\ Len(history) = round_no]_vars
  /\ [](pc \in {"ask_bet", "deal"} => NoHands)
  /\ [][(pc = "ask_bet") =>
          /\ pc' \in {"ask_bet", "deal"}
          /\ UNCHANGED <<deck, player, dealer>>]_vars
  /\ [][(pc = "deal") =>
          LET n == Len(deck)
          IN  /\ Len(player'.hand) = 2 /\ Len(dealer'.hand) = 2
              /\ pc' \in {"naturals", "player_turn", "crashed"}
              /\ n >= 4 =>
                   /\ player'.hand = <<deck[n], deck[n - 2]>>
                   /\ dealer'.hand = <<deck[n - 1], deck[n - 3]>>
                   /\ deck' = SubSeq(deck, 1, n - 4)]_vars
  /\ [](pc = "naturals" => Len(player.hand) = 2 /\ Len(dealer.hand) = 2)

\* round 2, just dealt, after a round 1 that ended with more than two cards
\* in the player's hand
C15_Witness ==
  /\ round_no = 2
  /\ pc = "player_turn"
  /\ Len(history) = 1
  /\ history[1].result = "PLAYER_BUST"
  /\ Len(player.hand) = 2
  /\ Len(dealer.hand) = 2

(***************************************************************************)
(* C16: the record of a round.                                             *)
(***************************************************************************)
\* the chips a result makes of the chips before it
ChipsFit(result, before, after, b) ==
  CASE result \in {"WIN", "DEALER_BUST"} -> after = before + b
    [] result \in {"LOSE", "PLAYER_BUST", "DEALER_BJ"} -> after = before - b
    [] result = "PUSH" -> after = before
    [] result = "PLAYER_BJ" -> IsThreeHalves(after - before, b)
    [] OTHER -> FALSE

\* the round at hand has no row in the store
NoRowOfRound == \A i \in 1..Len(rows) : rows[i].round_no < round_no

\* C16: log_round is called only in a settling step, and the step that calls
\* it has updated the chips first: a row is added only there, one at a time,
\* and holds the round number, the bet, the result and the updated chips that
\* are in memory when the round is over; before the settling step of a round
\* the store has no row of it, and an interrupt there leaves none.
C16_RecordAfterSettlement ==
  /\ [][log_calls' # log_calls =>
          /\ pc \in Settling
          /\ log_calls' = log_calls + 1
          /\ Len(history') = Len(history) + 1
          /\ LET h == history'[Len(history')]
             IN  /\ h.round_no = round_no
                 /\ h.chips = player'.chips
                 /\ ChipsFit(h.result, player.chips, player'.chips, bet)]_vars
  /\ [][rows' # rows =>
          /\ log_calls' = log_calls + 1
          /\ Len(rows') = Len(rows) + 1
          /\ SubSeq(rows', 1, Len(rows)) = rows
          /\ LET r == rows'[Len(rows')]
                 h == history'[Len(history')]
             IN  /\ r.round_no = round_no' /\ r.round_no = h.round_no
                 /\ r.bet = bet'
                 /\ r.result = h.result
                 /\ r.chips_after = player'.chips]_vars
  /\ [](\A i \in 1..Len(rows) :
          /\ rows[i].round_no <= Len(history)
          /\ history[rows[i].round_no].result = rows[i].result
          /\ history[rows[i].round_no].chips = rows[i].chips_after)
  /\ [](pc \in {"ask_bet"} \cup BetStanding => NoRowOfRound)
  /\ [][(pc \in {"ask_bet"} \cup BetStanding /\ pc \notin Settling
           /\ pc' = "interrupted") => rows' = rows /\ NoRowOfRound']_vars
  /\ [](pc = "interrupted" /\ Len(history) < round_no => NoRowOfRound)

\* round 2 is interrupted after a hit: the store holds the row of round 1
\* and nothing of round 2
C16_Witness ==
  /\ pc = "interrupted"
  /\ round_no = 2
  /\ Len(player.hand) >= 3
  /\ Len(history) = 1
  /\ Len(rows) = 1
  /\ rows[1].round_no = 1

(***************************************************************************)
(* C17: the hole card.                                                     *)
(***************************************************************************)
MaskedHeaders == {"your_turn", "dealer_turn", "dealer_hits"}

RevealedHeaders == {"check_blackjack", "you_bust", "settlement"}

\* the table on the screen would be the same with c as the hole card
SameTableWith(c) ==
  screen = Table(FALSE, screen.header, deck, player,
                 [dealer EXCEPT !.hand[1] = c], bet, round_no, history,
                 screen.stats)

\* C17: a table of the player's turn or of the dealer's turn shows the mask
\* in place of the dealer's first card, the dealer's other cards, and no
\* dealer value; it is the table any other hole card would have given; and
\* the tables that show the hole card and the dealer's value are those of the
\* naturals check, of the player's bust and of the settlement.
C17_HoleCardMasked ==
  /\ [](screen.header \in MaskedHeaders =>
          /\ Len(dealer.hand) >= 2
          /\ Len(screen.dealer) = Len(dealer.hand)
          /\ screen.dealer[1] = Mask
          /\ dealer.hand[1] \in FullCards
          /\ \A i \in 2..Len(dealer.hand) : screen.dealer[i] = dealer.hand[i]
          /\ screen.dealer_value = Hidden /\ Hidden < 0)
  /\ [](pc \in {"ask_choice", "dealer_turn"} =>
          /\ screen.header \in MaskedHeaders
          /\ \A c \in FullCards : SameTableWith(c))
  /\ [](pc \in {"player_turn", "ask_choice", "dealer_turn"} =>
          screen.header \notin RevealedHeaders)
  /\ [](screen.header \in RevealedHeaders =>
          /\ pc \in {"naturals", "bust", "settle", "pause", "crashed"}
          /\ screen.dealer = dealer.hand
          /\ screen.dealer_value = BestTotal(dealer.hand)
          /\ screen.header = "check_blackjack" => DealtNatural
          /\ screen.header = "you_bust" => BestTotal(player.hand) > 21
          /\ screen.header = "settlement" =>
               BestTotal(dealer.hand) >= 17 /\ BestTotal(player.hand) <= 21)

\* the player is asked Hit or Stand: the dealer holds a 6 under a King, and
\* the table shows the mask and the King
C17_Witness ==
  /\ pc = "ask_choice"
  /\ screen.header = "your_turn"
  /\ dealer.hand[1][1] = "6"
  /\ dealer.hand[2][1] = "K"
  /\ screen.dealer = <<Mask, dealer.hand[2]>>
  /\ screen.dealer_value = Hidden

(***************************************************************************)
(* C18: where _settle is entered.                                          *)
(***************************************************************************)
\* C18: _settle is entered only from the dealer's turn, which is entered
\* only by the player's Stand and leaves the player's hand alone; there,
\* neither hand was a natural when dealt, the player's total is at most 21
\* and the dealer's at least 17; and the result it gives is DEALER_BUST, WIN,
\* LOSE or PUSH.
C18_SettlePrecondition ==
  /\ [](pc = "settle" =>
          /\ ~DealtNatural
          /\ BestTotal(player.hand) <= 21
          /\ BestTotal(dealer.hand) >= 17)
  /\ [][(pc' = "settle") => pc = "dealer_turn"]_vars
  /\ [][(pc' = "dealer_turn" /\ pc # "dealer_turn") =>
          pc = "ask_choice" /\ player' = player /\ dealer' = dealer]_vars
  /\ [][(pc = "dealer_turn") => player' = player]_vars
  /\ [][(pc = "settle") =>
          /\ Len(history') = Len(history) + 1
          /\ history'[Len(history')].result \in
               {"DEALER_BUST", "WIN", "LOSE", "PUSH"}]_vars

\* _settle has run on a dealer who drew past 21 against a player who had hit
C18_Witness ==
  /\ pc = "pause"
  /\ screen.header = "settlement"
  /\ LastResult = "DEALER_BUST"
  /\ Len(player.hand) >= 3
  /\ BestTotal(dealer.hand) > 21

(***************************************************************************)
(* C19: the chips of a session.                                            *)
(***************************************************************************)
\* C19: from the 100 chips main starts with, the chips never go below 0: no
\* step takes more than the bet, and the standing bet is at most the chips;
\* and whenever the bet is asked the chips are at least 1 and every amount
\* from 1 to the chips is accepted.
C19_ChipsNeverNegative ==
  /\ [](player.chips >= 0)
  /\ [][player'.chips >= player.chips - bet]_vars
  /\ [][pc' = "deal" => bet' <= player'.chips]_vars
  /\ [](pc = "ask_bet" =>
          /\ player.chips >= 1
          /\ \A n \in 1..player.chips :
               LET a == BetAnswer(Decimal(n), player.chips)
               IN  a.ok /\ a.bet = n)

\* the player has staked all the chips and lost them
C19_Witness ==
  /\ pc = "pause"
  /\ player.chips = 0
  /\ bet = StartChips
  /\ LastResult \in {"LOSE", "PLAYER_BUST", "DEALER_BJ"}

(***************************************************************************)
(* C20: the end of a round.                                                *)
(***************************************************************************)
\* C20: a round whose bet is accepted and whose prompts are answered with H
\* or S reaches the end of one of its three settlements.
C20_RoundReachesSettlement ==
  (pc = "deal") ~> (pc = "pause" /\ RoundSettled)

====
